---- MODULE Spec2Model ----
(***************************************************************************)
(* go-stats-calculator: the statistics engine of src/stats.go.             *)
(*                                                                         *)
(* A float64 is modelled by a binary floating-point format of the same     *)
(* family (round to nearest, ties to even, gradual underflow) with         *)
(* FloatPrecision significand bits and a smallest step of 2^-FracBits.     *)
(* A value is held as the integer number of such steps, so equality and    *)
(* order of floats are equality and order of integers.                     *)
(***************************************************************************)
EXTENDS Integers, Sequences, FiniteSets, TLC

\* ------------------------------------------------------------------ bounds
\* significand bits of the modelled float format (53 in float64)
FloatPrecision == 5
\* the smallest positive float is 2^-FracBits (2^-1074 in float64)
FracBits == 4
\* longest sample read
MaxLen == 4
\* longest input text read, counted in elements (characters or runs of spaces)
MaxInput == 4

\* ------------------------------------------------------- float arithmetic
Unit == 2 ^ FracBits

Abs(x) == IF x < 0 THEN 0 - x ELSE x

Sign(x) == IF x < 0 THEN 0 - 1 ELSE 1

Max2(a, b) == IF a >= b THEN a ELSE b

BitLen4(n) == IF n < 4 THEN (IF n < 2 THEN n ELSE 2) ELSE (IF n < 8 THEN 3 ELSE 4)

BitLen8(n) == IF n < 16 THEN BitLen4(n) ELSE 4 + BitLen4(n \div 16)

BitLen16(n) == IF n < 256 THEN BitLen8(n) ELSE 8 + BitLen8(n \div 256)

\* number of binary digits of n, 0 <= n < 2^31
BitLen(n) == IF n < 65536 THEN BitLen16(n) ELSE 16 + BitLen16(n \div 65536)

TrailingZeros4(n) ==
    IF n % 4 = 0 THEN (IF n % 8 = 0 THEN 3 ELSE 2) ELSE (IF n % 2 = 0 THEN 1 ELSE 0)

TrailingZeros8(n) == IF n % 16 = 0 THEN 4 + TrailingZeros4(n \div 16) ELSE TrailingZeros4(n)

TrailingZeros16(n) == IF n % 256 = 0 THEN 8 + TrailingZeros8(n \div 256) ELSE TrailingZeros8(n)

\* exponent of the largest power of two dividing n, 0 < n < 2^31
TrailingZeros(n) ==
    IF n % 65536 = 0 THEN 16 + TrailingZeros16(n \div 65536) ELSE TrailingZeros16(n)

\* the odd part of n > 0
Significand(n) == n \div (2 ^ TrailingZeros(n))

\* n * 2^e steps rounded to a multiple of 2^q steps, q >= e
RoundAt(n, e, sticky, q) ==
    IF q = e THEN n * (2 ^ e)
    ELSE IF q - e > 30 THEN 0
    ELSE LET lo   == n \div (2 ^ (q - e))
             rem  == n % (2 ^ (q - e))
             half == 2 ^ (q - e - 1)
         IN  IF rem > half \/ (rem = half /\ (sticky \/ lo % 2 = 1))
             THEN (lo + 1) * (2 ^ q)
             ELSE lo * (2 ^ q)

\* Round n * 2^e steps (n >= 0; sticky: plus a positive excess below the last
\* digit of n) to the nearest float, ties to the even significand.
RoundME(n, e, sticky) ==
    RoundAt(n, e, sticky, Max2(Max2(0, e), BitLen(n) + e - FloatPrecision))

\* an exact integer number of steps, rounded to a float
RoundInt(x) == Sign(x) * RoundME(Abs(x), 0, FALSE)

\* float64(i) for an int i
FromInt(i) == RoundInt(i * Unit)

\* a + b
FAdd(a, b) == RoundInt(a + b)

\* a - b
FSub(a, b) == RoundInt(a - b)

\* a * b
FMul(a, b) ==
    IF a = 0 \/ b = 0 THEN 0
    ELSE LET ea == TrailingZeros(Abs(a))
             eb == TrailingZeros(Abs(b))
         IN  Sign(a) * Sign(b) *
             RoundME(Significand(Abs(a)) * Significand(Abs(b)), ea + eb - FracBits, FALSE)

\* a / b for b # 0
FDiv(a, b) ==
    IF a = 0 THEN 0
    ELSE LET ea  == TrailingZeros(Abs(a))
             eb  == TrailingZeros(Abs(b))
             g   == 2 * FloatPrecision + 2
             num == Significand(Abs(a)) * (2 ^ g)
             den == Significand(Abs(b))
         IN  Sign(a) * Sign(b) *
             RoundME(num \div den, ea - eb + FracBits - g, num % den # 0)

\* the decimal literal num/den (num >= 0, den > 0) as the compiler rounds it
FLit(num, den) ==
    IF num = 0 THEN 0
    ELSE LET g == FloatPrecision + 2
             n == num * Unit * (2 ^ g)
         IN  RoundME(n \div den, 0 - g, n % den # 0)

RECURSIVE ISqrt(_)
\* floor of the square root of n >= 0
ISqrt(n) ==
    IF n < 2 THEN n
    ELSE LET r == 2 * ISqrt(n \div 4)
         IN  IF (r + 1) * (r + 1) <= n THEN r + 1 ELSE r

\* math.Sqrt(a) for a >= 0
FSqrt(a) ==
    IF a = 0 THEN 0
    ELSE LET e0 == TrailingZeros(a) + FracBits
             m  == IF e0 % 2 = 1 THEN 2 * Significand(a) ELSE Significand(a)
             e  == IF e0 % 2 = 1 THEN e0 - 1 ELSE e0
             g  == FloatPrecision + 1
             n  == m * (4 ^ g)
             r  == ISqrt(n)
         IN  RoundME(r, (e \div 2) - g, r * r # n)

\* math.Floor(a)
FFloor(a) == (a \div Unit) * Unit

\* math.Ceil(a)
FCeil(a) == 0 - FFloor(0 - a)

\* int(a): truncation toward zero
ToInt(a) == Sign(a) * (Abs(a) \div Unit)

\* math.Abs(a)
FAbs(a) == Abs(a)

\* n rounded to drop its low q bits, as [sig, exp] with value sig * 2^exp
roundSigAt(n, q) ==
    IF q <= 0 THEN [sig |-> n, exp |-> 0]
    ELSE [sig |-> RoundAt(n, 0, FALSE, q) \div (2 ^ q), exp |-> q]

\* n rounded to FloatPrecision significant bits, as [sig, exp] with value
\* sig * 2^exp: the product of two mantissas before math.Pow scales it back
RoundSig(n) == roundSigAt(n, BitLen(n) - FloatPrecision)

\* Ldexp(a1, ae): the mantissa product p = [sig, exp] scaled back to a value
ldexpOf(p, ae) == RoundME(p.sig, ae + p.exp, FALSE)

\* math.Pow(x, 2): x1 *= x1; a1 *= x1 on the mantissa, then Ldexp
FPow2(x) ==
    IF x = 0 THEN 0
    ELSE ldexpOf(RoundSig(Significand(Abs(x)) * Significand(Abs(x))),
                 2 * TrailingZeros(Abs(x)) - FracBits)

\* math.Pow(x, 3) once the rounded square sq of x's mantissa sig is known
pow3OfSquare(x, sig, sq) ==
    Sign(x) * ldexpOf(RoundSig(sig * sq.sig),
                      3 * TrailingZeros(Abs(x)) - 2 * FracBits + sq.exp)

\* math.Pow(x, 3) once x's mantissa sig is known
pow3OfSig(x, sig) == pow3OfSquare(x, sig, RoundSig(sig * sig))

\* math.Pow(x, 3): a1 = x1; x1 *= x1; a1 *= x1 on the mantissa, then Ldexp
FPow3(x) == IF x = 0 THEN 0 ELSE pow3OfSig(x, Significand(Abs(x)))

\* math.Pow(x, 4) once the rounded square sq of x's mantissa is known
pow4OfSquare(x, sq) ==
    ldexpOf(RoundSig(sq.sig * sq.sig),
            4 * TrailingZeros(Abs(x)) - 3 * FracBits + 2 * sq.exp)

\* math.Pow(x, 4) once x's mantissa sig is known
pow4OfSig(x, sig) == pow4OfSquare(x, RoundSig(sig * sig))

\* math.Pow(x, 4): x1 *= x1; x1 *= x1; a1 *= x1 on the mantissa, then Ldexp
FPow4(x) == IF x = 0 THEN 0 ELSE pow4OfSig(x, Significand(Abs(x)))

\* 2*atanh(s) for s = (m-1)/(m+1), by its series up to s^7, all in units
\* of 1/4096; s2 is s squared
logOfRatio(s, s2) ==
    2 * (s + ((s * s2) \div 4096) \div 3
           + ((((s * s2) \div 4096) * s2) \div 4096) \div 5
           + ((((((s * s2) \div 4096) * s2) \div 4096) * s2) \div 4096) \div 7)

\* ln(m) in units of 1/4096, for the mantissa m in [1,2) given in the same units
logOfMantissa(m) ==
    logOfRatio(((m - 4096) * 4096) \div (m + 4096),
               ((((m - 4096) * 4096) \div (m + 4096))
                    * (((m - 4096) * 4096) \div (m + 4096))) \div 4096)

\* ln(sig * 2^e) in units of 1/4096: k*ln2 + ln(m) with sig = m * 2^(bits-1)
logOfParts(sig, e, bits) ==
    (bits - 1 + e) * 2839 + logOfMantissa((sig * 4096) \div (2 ^ (bits - 1)))

\* math.Log(a) for a > 0: the argument is split into exponent and mantissa,
\* the logarithm summed from k*Ln2 and a series in the mantissa, and rounded
FLog(a) ==
    Sign(logOfParts(Significand(a), TrailingZeros(a) - FracBits,
                    BitLen(Significand(a))))
      * RoundME(Abs(logOfParts(Significand(a), TrailingZeros(a) - FracBits,
                               BitLen(Significand(a)))),
                FracBits - 12, TRUE)

\* a is a value of the float format
IsFloat(a) == RoundInt(a) = a

\* ------------------------------------------------------------ Go values
\* A []float64: nil, or its elements in order.
NilSlice == [isNil |-> TRUE, elems |-> <<>>]

\* []float64{...}
Slice(s) == [isNil |-> FALSE, elems |-> s]

\* append(sl, v)
append(sl, v) == Slice(Append(sl.elems, v))

\* the nil *Stats
NilStats == [isNil |-> TRUE]

\* the nil error
NilErr == "nil"

ErrEmptyInput == "input contains no valid numbers"

ErrTrimTooLarge == "trim removes the entire dataset"

ErrLogDomain == "log transform requires all positive values"

Range(s) == {s[i] : i \in 1..Len(s)}

RECURSIVE insertAscending(_, _)
\* s ascending, with v put at its place after the elements <= v
insertAscending(s, v) ==
    IF s = <<>> THEN <<v>>
    ELSE IF v < Head(s) THEN <<v>> \o s
    ELSE <<Head(s)>> \o insertAscending(Tail(s), v)

RECURSIVE sortSeq(_)
\* the elements of s in ascending order
sortSeq(s) == IF s = <<>> THEN <<>> ELSE insertAscending(sortSeq(Tail(s)), Head(s))

\* sort.Float64s(sl), on a slice value
sortFloat64s(sl) == [sl EXCEPT !.elems = sortSeq(sl.elems)]

\* --------------------------------------------------------------- the engine
\* s[idx] with idx outside the slice: the run-time panic "index out of range"
IndexPanic == [panic |-> "index out of range"]

\* calculatePercentile(sortedData, p)
\* the interpolation with the two weights exchanged
interpolate_SwappedWeights(lower, upper, weight) ==
    FAdd(FMul(lower, weight), FMul(upper, FSub(FromInt(1), weight)))

\* sortedData[int(lowerIndex)]*(1-weight) + sortedData[int(upperIndex)]*weight
interpolate(lower, upper, weight) ==
    FAdd(FMul(lower, FSub(FromInt(1), weight)), FMul(upper, weight))

\* an index of calculatePercentile lies outside sortedData
rankOutOfRange(sortedData, lowerIndex, upperIndex) ==
    lowerIndex < 0 \/ ToInt(upperIndex) >= Len(sortedData)

\* a whole rank read one element too far, the last element at most
percentileAtRank_OneTooFar(sortedData, rank, lowerIndex, upperIndex) ==
    IF rankOutOfRange(sortedData, lowerIndex, upperIndex) THEN IndexPanic
    ELSE IF lowerIndex = upperIndex
    THEN sortedData[IF ToInt(rank) + 2 > Len(sortedData) THEN Len(sortedData)
                    ELSE ToInt(rank) + 2]
    ELSE interpolate(sortedData[ToInt(lowerIndex) + 1], sortedData[ToInt(upperIndex) + 1],
                     FSub(rank, lowerIndex))

\* calculatePercentile from the rank on
percentileAtRank(sortedData, rank, lowerIndex, upperIndex) ==
    IF rankOutOfRange(sortedData, lowerIndex, upperIndex) THEN IndexPanic
    ELSE IF lowerIndex = upperIndex THEN sortedData[ToInt(rank) + 1]
    ELSE interpolate(sortedData[ToInt(lowerIndex) + 1], sortedData[ToInt(upperIndex) + 1],
                     FSub(rank, lowerIndex))

\* rank := p * float64(n-1); lowerIndex := math.Floor(rank); upperIndex := math.Ceil(rank)
percentileOfRank(sortedData, rank) ==
    percentileAtRank(sortedData, rank, FFloor(rank), FCeil(rank))

\* the call calculatePercentile(sortedData, p) panics
percentilePanics(sortedData, p) ==
    /\ Len(sortedData) >= 2
    /\ rankOutOfRange(sortedData,
                      FFloor(FMul(p, FromInt(Len(sortedData) - 1))),
                      FCeil(FMul(p, FromInt(Len(sortedData) - 1))))

calculatePercentile(sortedData, p) ==
    IF Len(sortedData) = 0 THEN 0
    ELSE IF Len(sortedData) = 1 THEN sortedData[1]
    ELSE percentileOfRank(sortedData, FMul(p, FromInt(Len(sortedData) - 1)))

RECURSIVE sumLoop(_, _)
\* for _, v := range data { sum += v }
sumLoop(data, sum) ==
    IF data = <<>> THEN sum ELSE sumLoop(Tail(data), FAdd(sum, Head(data)))

RECURSIVE sumOfSquaresLoop(_, _, _)
\* for _, v := range data { sumOfSquares += math.Pow(v-mean, 2) }
sumOfSquaresLoop(data, mean, sumOfSquares) ==
    IF data = <<>> THEN sumOfSquares
    ELSE sumOfSquaresLoop(Tail(data), mean, FAdd(sumOfSquares, FPow2(FSub(Head(data), mean))))

\* the population variance: divisor n instead of n-1
varianceOf_Population(data, mean) ==
    IF Len(data) > 1
    THEN FDiv(sumOfSquaresLoop(data, mean, 0), FromInt(Len(data)))
    ELSE 0

\* the variance of computeStats: 0 unless count > 1
varianceOf(data, mean) ==
    IF Len(data) > 1
    THEN FDiv(sumOfSquaresLoop(data, mean, 0), FromInt(Len(data) - 1))
    ELSE 0

\* stats.CustomPercentiles: nil, or a map from each requested p to its value
customPercentilesOf(sortedData, customPercentiles) ==
    IF Len(customPercentiles) > 0
    THEN [isNil |-> FALSE,
          m |-> [p \in Range(customPercentiles) |->
                     calculatePercentile(sortedData, FDiv(p, FromInt(100)))]]
    ELSE [isNil |-> TRUE, m |-> <<>>]

\* freqs[v]++ for every v of data
freqsOf(data) ==
    [v \in Range(data) |-> Cardinality({i \in 1..Len(data) : data[i] = v})]

RECURSIVE modesLoop(_, _, _, _)
\* for val, freq := range freqs, the keys visited in the order `order`
modesLoop(freqs, order, maxFreq, modes) ==
    IF order = <<>> THEN [maxFreq |-> maxFreq, modes |-> modes]
    ELSE LET val  == Head(order)
             freq == freqs[val]
         IN  IF freq > maxFreq
             THEN modesLoop(freqs, Tail(order), freq, Slice(<<val>>))
             ELSE IF freq = maxFreq
             THEN modesLoop(freqs, Tail(order), maxFreq, append(modes, val))
             ELSE modesLoop(freqs, Tail(order), maxFreq, modes)

\* stats.Mode without the final sort.Float64s
modeOf_Unsorted(data, order) ==
    LET r == modesLoop(freqsOf(data), order, 0, NilSlice)
    IN  IF r.maxFreq <= 1 THEN Slice(<<>>) ELSE r.modes

\* stats.Mode, the frequency map iterated in the order `order`
modeOf(data, order) ==
    LET r == modesLoop(freqsOf(data), order, 0, NilSlice)
    IN  IF r.maxFreq <= 1 THEN Slice(<<>>) ELSE sortFloat64s(r.modes)

RECURSIVE outliersLoop_Inclusive(_, _, _, _)
\* the loop with <= and >= in place of < and >
outliersLoop_Inclusive(data, lowerBound, upperBound, outliers) ==
    IF data = <<>> THEN outliers
    ELSE LET v == Head(data)
         IN  outliersLoop_Inclusive(Tail(data), lowerBound, upperBound,
                 IF v <= lowerBound \/ v >= upperBound THEN append(outliers, v) ELSE outliers)

RECURSIVE outliersLoop(_, _, _, _)
\* for _, v := range data { if v < lowerBound || v > upperBound { append } }
outliersLoop(data, lowerBound, upperBound, outliers) ==
    IF data = <<>> THEN outliers
    ELSE LET v == Head(data)
         IN  outliersLoop(Tail(data), lowerBound, upperBound,
                 IF v < lowerBound \/ v > upperBound THEN append(outliers, v) ELSE outliers)

\* the fences moved inward by k * IQR: Q1 + k*IQR and Q3 - k*IQR
outliersOf_FencesInward(data, q1, q3, iqr, iqrMultiplier) ==
    LET lowerBound == FAdd(q1, FMul(iqrMultiplier, iqr))
        upperBound == FSub(q3, FMul(iqrMultiplier, iqr))
    IN  sortFloat64s(outliersLoop(data, lowerBound, upperBound, NilSlice))

\* stats.Outliers by the k * IQR rule
outliersOf(data, q1, q3, iqr, iqrMultiplier) ==
    LET lowerBound == FSub(q1, FMul(iqrMultiplier, iqr))
        upperBound == FAdd(q3, FMul(iqrMultiplier, iqr))
    IN  sortFloat64s(outliersLoop(data, lowerBound, upperBound, NilSlice))

RECURSIVE zScoreLoop_Signed(_, _, _, _, _)
\* the loop with the signed deviation in place of its absolute value
zScoreLoop_Signed(data, mean, stdDev, zScoreThreshold, outliers) ==
    IF data = <<>> THEN outliers
    ELSE LET v == Head(data)
             z == FDiv(FSub(v, mean), stdDev)
         IN  zScoreLoop_Signed(Tail(data), mean, stdDev, zScoreThreshold,
                 IF z > zScoreThreshold THEN append(outliers, v) ELSE outliers)

RECURSIVE zScoreLoop(_, _, _, _, _)
\* for each value, z = |value - mean| / stdDev; flagged when z > threshold
zScoreLoop(data, mean, stdDev, zScoreThreshold, outliers) ==
    IF data = <<>> THEN outliers
    ELSE LET v == Head(data)
             z == FDiv(FAbs(FSub(v, mean)), stdDev)
         IN  zScoreLoop(Tail(data), mean, stdDev, zScoreThreshold,
                 IF z > zScoreThreshold THEN append(outliers, v) ELSE outliers)

\* Z-score outliers collected into a slice that starts out nil
zScoreOutliersOf_FromNil(data, mean, stdDev, zScoreThreshold) ==
    IF zScoreThreshold > 0 /\ stdDev > 0
    THEN sortFloat64s(zScoreLoop(data, mean, stdDev, zScoreThreshold, NilSlice))
    ELSE NilSlice

\* stats.ZScoreOutliers: nil when detection is disabled or stdDev is 0
zScoreOutliersOf(data, mean, stdDev, zScoreThreshold) ==
    IF zScoreThreshold > 0 /\ stdDev > 0
    THEN sortFloat64s(zScoreLoop(data, mean, stdDev, zScoreThreshold, Slice(<<>>)))
    ELSE NilSlice

\* trimCount = floor(n * trimPercent / 100)
trimCountOf(count, trimPercent) ==
    ToInt(FFloor(FDiv(FMul(FromInt(count), trimPercent), FromInt(100))))

\* the check with < in place of <=
trimTooLarge_Strict(count, trimPercent) ==
    trimPercent > 0 /\ count - 2 * trimCountOf(count, trimPercent) < 0

\* the trim would remove the entire dataset
trimTooLarge(count, trimPercent) ==
    trimPercent > 0 /\ count - 2 * trimCountOf(count, trimPercent) <= 0

\* stats.TrimmedMean: the mean of sortedData[trimCount : count-trimCount]
trimmedMeanOf(sortedData, trimPercent) ==
    IF trimPercent > 0
    THEN LET count     == Len(sortedData)
             trimCount == trimCountOf(count, trimPercent)
         IN  FDiv(sumLoop(SubSeq(sortedData, trimCount + 1, count - trimCount), 0),
                  FromInt(count - 2 * trimCount))
    ELSE 0

RECURSIVE logLoop_SkipNonPositive(_, _)
\* a transform that leaves out the values without a logarithm
logLoop_SkipNonPositive(data, result) ==
    IF data = <<>> THEN [result |-> result, err |-> NilErr]
    ELSE IF Head(data) <= 0 THEN logLoop_SkipNonPositive(Tail(data), result)
    ELSE logLoop_SkipNonPositive(Tail(data), append(result, FLog(Head(data))))

RECURSIVE logLoop(_, _)
\* the loop of applyLogTransform: fail at the first v <= 0, else math.Log(v)
logLoop(data, result) ==
    IF data = <<>> THEN [result |-> result, err |-> NilErr]
    ELSE IF Head(data) <= 0 THEN [result |-> NilSlice, err |-> ErrLogDomain]
    ELSE logLoop(Tail(data), append(result, FLog(Head(data))))

\* applyLogTransform(data): a new slice with the natural log of every value
applyLogTransform(data) == logLoop(data, Slice(<<>>))

RECURSIVE sumOfCubedDeviationsLoop(_, _, _)
\* for _, v := range data { sumOfCubedDeviations += math.Pow(v-mean, 3) }
sumOfCubedDeviationsLoop(data, mean, sumOfCubedDeviations) ==
    IF data = <<>> THEN sumOfCubedDeviations
    ELSE sumOfCubedDeviationsLoop(Tail(data), mean,
             FAdd(sumOfCubedDeviations, FPow3(FSub(Head(data), mean))))

\* (1 / n) * (sumOfCubedDeviations / math.Pow(stdDev, 3)): no adjustment for
\* the sample size
skewnessOfCount_Unadjusted(data, mean, stdDev, n) ==
    FMul(FDiv(FromInt(1), n),
         FDiv(sumOfCubedDeviationsLoop(data, mean, 0), FPow3(stdDev)))

\* (n / ((n - 1) * (n - 2))) * (sumOfCubedDeviations / math.Pow(stdDev, 3))
skewnessOfCount(data, mean, stdDev, n) ==
    FMul(FDiv(n, FMul(FSub(n, FromInt(1)), FSub(n, FromInt(2)))),
         FDiv(sumOfCubedDeviationsLoop(data, mean, 0), FPow3(stdDev)))

\* the adjusted Fisher-Pearson standardized moment coefficient
calculateSkewness(data, mean, stdDev) ==
    IF Len(data) < 3 \/ stdDev = 0 THEN 0
    ELSE skewnessOfCount(data, mean, stdDev, FromInt(Len(data)))

RECURSIVE sumOfFourthDeviationsLoop(_, _, _, _)
\* for _, v := range data { sumOfFourthDeviations += math.Pow((v-mean)/stdDev, 4) }
sumOfFourthDeviationsLoop(data, mean, stdDev, sumOfFourthDeviations) ==
    IF data = <<>> THEN sumOfFourthDeviations
    ELSE sumOfFourthDeviationsLoop(Tail(data), mean, stdDev,
             FAdd(sumOfFourthDeviations,
                  FPow4(FDiv(FSub(Head(data), mean), stdDev))))

\* (n*(n+1))/((n-1)*(n-2)*(n-3))*sumOfFourthDeviations: the kurtosis without
\* the term that makes it an excess
kurtosisOfCount_NotExcess(data, mean, stdDev, n, n1, n2, n3) ==
    FMul(FDiv(FMul(n, FAdd(n, FromInt(1))), FMul(FMul(n1, n2), n3)),
         sumOfFourthDeviationsLoop(data, mean, stdDev, 0))

\* (n*(n+1))/((n-1)*(n-2)*(n-3))*sumOfFourthDeviations - 3*(n-1)*(n-1)/((n-2)*(n-3))
kurtosisOfCount(data, mean, stdDev, n, n1, n2, n3) ==
    FSub(FMul(FDiv(FMul(n, FAdd(n, FromInt(1))), FMul(FMul(n1, n2), n3)),
              sumOfFourthDeviationsLoop(data, mean, stdDev, 0)),
         FDiv(FMul(FMul(FromInt(3), n1), n1), FMul(n2, n3)))

\* the sample excess kurtosis
calculateKurtosis(data, mean, stdDev) ==
    IF Len(data) < 4 \/ stdDev = 0 THEN 0
    ELSE kurtosisOfCount(data, mean, stdDev, FromInt(Len(data)),
                         FSub(FromInt(Len(data)), FromInt(1)),
                         FSub(FromInt(Len(data)), FromInt(2)),
                         FSub(FromInt(Len(data)), FromInt(3)))

\* stats.HasNegativeData
hasNegativeData(data) == \E i \in 1..Len(data) : data[i] < 0

\* the 1e-10 under which |mean| counts as zero; it lies below the smallest
\* positive value of the format, whose one step stands for it
CVEpsilon == 1

\* stats.CVValid
cvValidOf(mean) == ~(FAbs(mean) < CVEpsilon)

\* (stats.StdDev / stats.Mean) * 100: the sign of the mean kept
cvOf_Signed(mean, stdDev) ==
    IF FAbs(mean) < CVEpsilon THEN 0
    ELSE FMul(FDiv(stdDev, mean), FromInt(100))

\* stats.CV, left at 0 when the mean is (nearly) zero
cvOf(mean, stdDev) ==
    IF FAbs(mean) < CVEpsilon THEN 0
    ELSE FMul(FDiv(stdDev, FAbs(mean)), FromInt(100))

\* if idx >= numBins { idx = numBins - 1 }
clampIndex(idx, numBins) == IF idx >= numBins THEN numBins - 1 ELSE idx

\* idx := int((v - minVal) / binWidth), clamped to the last bin
binIndex(v, minVal, binWidth, numBins) ==
    clampIndex(ToInt(FDiv(FSub(v, minVal), binWidth)), numBins)

RECURSIVE binIndices(_, _, _, _)
\* the bin index of every value of sortedData, in order
binIndices(sortedData, minVal, binWidth, numBins) ==
    IF sortedData = <<>> THEN <<>>
    ELSE <<binIndex(Head(sortedData), minVal, binWidth, numBins)>>
             \o binIndices(Tail(sortedData), minVal, binWidth, numBins)

\* bins[idx]++ for every index; bins are numbered from 0
binsOfIndices(indices, numBins) ==
    [i \in 0..(numBins - 1) |->
        Cardinality({j \in 1..Len(indices) : indices[j] = i})]

\* bins after the loop over sortedData
binsOf(sortedData, minVal, binWidth, numBins) ==
    binsOfIndices(binIndices(sortedData, minVal, binWidth, numBins), numBins)

\* the largest bin count
maxCountOf(bins) ==
    CHOOSE c \in {bins[i] : i \in DOMAIN bins} : \A i \in DOMAIN bins : bins[i] <= c

\* runes whose level grows with the bin count up to 8, one past the palette
runesOf_NineLevels(bins, maxCount, numBins) ==
    [i \in 1..numBins |->
        IF bins[i - 1] = 0 THEN 0 ELSE (bins[i - 1] * 8) \div maxCount]

\* runes with the palette upside down
runesOf_Inverted(bins, maxCount, numBins) ==
    [i \in 1..numBins |->
        IF bins[i - 1] = 0 THEN 0 ELSE 7 - (bins[i - 1] * 7) \div maxCount]

\* the runes of the sparkline, each given as its index into blocks (0..7)
runesOf(bins, maxCount, numBins) ==
    [i \in 1..numBins |->
        IF bins[i - 1] = 0 THEN 0 ELSE (bins[i - 1] * 7) \div maxCount]

\* generateSparkline once the bin counts are known
sparklineOfBins(bins, numBins) == runesOf(bins, maxCountOf(bins), numBins)

\* what int((v - minVal) / binWidth) is when binWidth is 0: the quotient is
\* NaN or +Inf, and the conversion of such a value to int is left to the
\* implementation
IndexUndefined == [undefined |-> "int of NaN or +Inf"]

\* generateSparkline once the bin width is known
sparklineOfWidth(sortedData, binWidth, numBins) ==
    IF binWidth = 0 THEN IndexUndefined
    ELSE sparklineOfBins(binsOf(sortedData, sortedData[1], binWidth, numBins),
                         numBins)

\* generateSparkline: "" is the empty sequence
generateSparkline(sortedData, numBins) ==
    IF Len(sortedData) < 2 THEN <<>>
    ELSE IF sortedData[1] = sortedData[Len(sortedData)] THEN <<>>
    ELSE sparklineOfWidth(sortedData,
                          FDiv(FSub(sortedData[Len(sortedData)], sortedData[1]),
                               FromInt(numBins)),
                          numBins)

\* the bin indices with a conversion that saturates: int(NaN) = 0 for the
\* values equal to the minimum, int(+Inf) the largest int, clamped to the
\* last bin, for the others
saturatedIndices(sortedData, numBins) ==
    [i \in 1..Len(sortedData) |->
        IF sortedData[i] = sortedData[1] THEN 0 ELSE numBins - 1]

\* what a call of generateSparkline that gave result can do on the builds
\* there are: where the conversion gives the smallest int the index is
\* negative and the call panics, where it saturates the call returns
sparklineOutcomes(result, sortedData, numBins) ==
    IF result = IndexUndefined
    THEN {IndexPanic,
          sparklineOfBins(binsOfIndices(saturatedIndices(sortedData, numBins), numBins),
                          numBins)}
    ELSE {result}

\* the mean of data[start:end], indices as in Go (from 0, end excluded)
chunkMean(data, start, end) ==
    FDiv(sumLoop(SubSeq(data, start + 1, end), 0), FromInt(end - start))

\* the means of the numBins contiguous chunks data[i*n/numBins : (i+1)*n/numBins]
chunkMeans(data, numBins) ==
    [i \in 1..numBins |->
        chunkMean(data, ((i - 1) * Len(data)) \div numBins,
                        (i * Len(data)) \div numBins)]

\* the smallest of the values of the sequence s
minOf(s) == CHOOSE x \in Range(s) : \A y \in Range(s) : x <= y

\* the largest of the values of the sequence s
maxOf(s) == CHOOSE x \in Range(s) : \A y \in Range(s) : x >= y

\* a level that falls as the chunk mean rises
trendLevel_Inverted(mean, minMean, maxMean) ==
    7 - ToInt(FMul(FDiv(FSub(mean, minMean), FSub(maxMean, minMean)), FromInt(7)))

\* the glyph of a chunk: int((mean - min) / (max - min) * 7)
trendLevel(mean, minMean, maxMean) ==
    ToInt(FMul(FDiv(FSub(mean, minMean), FSub(maxMean, minMean)), FromInt(7)))

\* the trendline of the chunk means, lowest and highest mean known
trendlineOfRange(means, minMean, maxMean) ==
    IF minMean = maxMean THEN <<>>
    ELSE [i \in 1..Len(means) |-> trendLevel(means[i], minMean, maxMean)]

\* the trendline of the chunk means
trendlineOfMeans(means) == trendlineOfRange(means, minOf(means), maxOf(means))

\* a trendline drawn over the sorted sample
generateTrendline_Sorted(data, numBins) ==
    IF Len(data) < 2 THEN <<>>
    ELSE trendlineOfMeans(chunkMeans(sortSeq(data),
             IF numBins > Len(data) THEN Len(data) ELSE numBins))

\* generateTrendline: one glyph per chunk of the sample in its original
\* order, at most one chunk per value; "" is the empty sequence
generateTrendline(data, numBins) ==
    IF Len(data) < 2 THEN <<>>
    ELSE trendlineOfMeans(chunkMeans(data,
             IF numBins > Len(data) THEN Len(data) ELSE numBins))

\* &Stats{}: every field at its zero value
zeroStats ==
    [isNil |-> FALSE, Count |-> 0, Min |-> 0, Max |-> 0, Sum |-> 0, Mean |-> 0,
     Variance |-> 0, StdDev |-> 0, Median |-> 0, Q1 |-> 0, Q3 |-> 0, P95 |-> 0,
     P99 |-> 0, CustomPercentiles |-> [isNil |-> TRUE, m |-> <<>>], IQR |-> 0,
     Mode |-> NilSlice, Outliers |-> NilSlice, ZScoreOutliers |-> NilSlice,
     ZScoreThreshold |-> 0, TrimmedMean |-> 0, TrimmedMeanPct |-> 0,
     Skewness |-> 0, Kurtosis |-> 0, HasNegativeData |-> FALSE, CV |-> 0,
     CVValid |-> FALSE, Sparkline |-> <<>>, Trendline |-> <<>>]

\* a computeStats without the count == 0 guard: an all-zero result, no error
emptyInputResult_NoGuard == [stats |-> zeroStats, err |-> NilErr]

\* what computeStats returns for an empty sample
emptyInputResult == [stats |-> NilStats, err |-> ErrEmptyInput]

\* computeStats once the percentiles are known
statsOfQuartiles(data, sortedData, cfg, sum, mean, variance, stdDev, q1, q3, iqr) ==
    [isNil    |-> FALSE,
     Count    |-> Len(data),
     Min      |-> sortedData[1],
     Max      |-> sortedData[Len(data)],
     Sum      |-> sum,
     Mean     |-> mean,
     Variance |-> variance,
     StdDev   |-> stdDev,
     Median   |-> calculatePercentile(sortedData, FLit(50, 100)),
     Q1       |-> q1,
     Q3       |-> q3,
     P95      |-> calculatePercentile(sortedData, FLit(95, 100)),
     P99      |-> calculatePercentile(sortedData, FLit(99, 100)),
     CustomPercentiles |-> customPercentilesOf(sortedData, cfg.customPercentiles),
     IQR      |-> iqr,
     Mode     |-> NilSlice,
     Outliers |-> outliersOf(data, q1, q3, iqr, cfg.iqrMultiplier),
     ZScoreOutliers  |-> zScoreOutliersOf(data, mean, stdDev, cfg.zScoreThreshold),
     ZScoreThreshold |-> IF cfg.zScoreThreshold > 0 THEN cfg.zScoreThreshold ELSE 0,
     TrimmedMean     |-> trimmedMeanOf(sortedData, cfg.trimPercent),
     TrimmedMeanPct  |-> IF cfg.trimPercent > 0 THEN cfg.trimPercent ELSE 0,
     Skewness        |-> calculateSkewness(data, mean, stdDev),
     Kurtosis        |-> calculateKurtosis(data, mean, stdDev),
     HasNegativeData |-> hasNegativeData(data),
     CV              |-> cvOf(mean, stdDev),
     CVValid         |-> cvValidOf(mean),
     Sparkline       |-> generateSparkline(sortedData, cfg.numBins),
     Trendline       |-> generateTrendline(data, cfg.numBins)]

\* computeStats once Q1 and Q3 are known
statsOfMoments(data, sortedData, cfg, sum, mean, variance, stdDev, q1, q3) ==
    statsOfQuartiles(data, sortedData, cfg, sum, mean, variance, stdDev, q1, q3, FSub(q3, q1))

\* computeStats once the variance is known
statsOfVariance(data, sortedData, cfg, sum, mean, variance) ==
    statsOfMoments(data, sortedData, cfg, sum, mean, variance,
                   IF Len(data) > 1 THEN FSqrt(variance) ELSE 0,
                   calculatePercentile(sortedData, FLit(25, 100)),
                   calculatePercentile(sortedData, FLit(75, 100)))

\* computeStats once the mean is known
statsOfMean(data, sortedData, cfg, sum, mean) ==
    statsOfVariance(data, sortedData, cfg, sum, mean, varianceOf(data, mean))

\* computeStats once the sum is known
statsOfSum(data, sortedData, cfg, sum) ==
    statsOfMean(data, sortedData, cfg, sum, FDiv(sum, FromInt(Len(data))))

\* sortedData := data; sort.Float64s(sortedData): the sort reaches the
\* caller's slice
sortedCopy_Aliased(data) == [data |-> sortSeq(data), sortedData |-> sortSeq(data)]

\* sortedData := make([]float64, count); copy(sortedData, data);
\* sort.Float64s(sortedData): the caller's slice and the private sorted copy
sortedCopy(data) == [data |-> data, sortedData |-> sortSeq(data)]

\* computeStats once the sorted copy is made
statsOfCopy(c, cfg) == statsOfSum(c.data, c.sortedData, cfg, sumLoop(c.data, 0))

\* computeStats(data, customPercentiles, iqrMultiplier, numBins,
\*              zScoreThreshold, trimPercent), cfg holding the five options;
\* stats.Mode depends on the order the frequency map is iterated in and is
\* filled in by the ComputeStats step
computeStats(data, cfg) ==
    IF Len(data) = 0 THEN emptyInputResult
    ELSE IF trimTooLarge(Len(data), cfg.trimPercent)
    THEN [stats |-> NilStats, err |-> ErrTrimTooLarge]
    ELSE [stats |-> statsOfCopy(sortedCopy(data), cfg), err |-> NilErr]

\* the caller's slice once computeStats has returned
callerDataAfter(data) ==
    IF Len(data) = 0 THEN data ELSE sortedCopy(data).data

\* ------------------------------------------------------------------ inputs
\* the values a sample is drawn from
Values == {FromInt(1), FromInt(2), FromInt(26), FromInt(27)}

RECURSIVE SeqsUpTo(_, _)
\* the sequences over S of length at most n
SeqsUpTo(S, n) ==
    IF n = 0 THEN {<<>>}
    ELSE LET shorter == SeqsUpTo(S, n - 1)
         IN  shorter \cup {Append(s, v) : s \in {t \in shorter : Len(t) = n - 1}, v \in S}

\* longer samples, with repeated values beyond both fences
LongSamples ==
    {<<FromInt(1), FromInt(1), FromInt(26), FromInt(26), FromInt(26), FromInt(26)>>,
     <<FromInt(27), FromInt(2), FromInt(2), FromInt(27), FromInt(2), FromInt(2), FromInt(1)>>,
     <<FromInt(2), FromInt(2), FromInt(2), FromInt(2), FromInt(2), FromInt(27), FromInt(27)>>}

\* a sample of one value repeated, the value with every significand bit set
ConstantSamples == {<<FromInt(31), FromInt(31), FromInt(31), FromInt(31)>>}

Samples == SeqsUpTo(Values, MaxLen) \cup LongSamples \cup ConstantSamples

\* the -p option
PercentileOptions == {<<>>, <<FromInt(10), FromInt(90)>>}

\* the -k option
IqrMultipliers == {0, FLit(3, 2)}

\* the -z option
ZScoreThresholds == {0, FromInt(1)}

\* the -t option
TrimPercents == {0, FromInt(25), FromInt(50)}

\* the -b option
BinCounts == {5}

RECURSIVE Orders(_)
\* the orders in which a map with the keys S may be iterated
Orders(S) ==
    IF S = {} THEN {<<>>}
    ELSE UNION {{<<x>> \o o : o \in Orders(S \ {x})} : x \in S}

\* ------------------------------------------------------------------- state
VARIABLES
    pc,                 \* "start" before computeStats is called, "done" after,
                        \* "panicked" when the call ended in a run-time panic
    data,               \* the caller's sample
    customPercentiles, iqrMultiplier, numBins, zScoreThreshold, trimPercent,
    stats,              \* the *Stats computeStats returned
    err,                \* the error computeStats returned
    argSorted, argP,    \* the arguments of a direct call of calculatePercentile
    retPercentile,      \* what that call returned
    args,               \* the arguments of a direct call of another function
    ret,                \* what that call returned
    prev                \* what an earlier call of computeStats returned

vars == <<pc, data, customPercentiles, iqrMultiplier, numBins, zScoreThreshold,
          trimPercent, stats, err, argSorted, argP, retPercentile, args, ret, prev>>

percentileCall == <<argSorted, argP, retPercentile>>

directCall == <<args, ret>>

\* no call made yet, nothing returned yet
None == [isNone |-> TRUE]

config == <<customPercentiles, iqrMultiplier, numBins, zScoreThreshold, trimPercent>>

\* the options of the call
cfgOf == [customPercentiles |-> customPercentiles, iqrMultiplier |-> iqrMultiplier,
          numBins |-> numBins, zScoreThreshold |-> zScoreThreshold,
          trimPercent |-> trimPercent]

Init ==
    /\ pc = "start"
    /\ data \in Samples
    /\ customPercentiles \in PercentileOptions
    /\ iqrMultiplier \in IqrMultipliers
    /\ numBins \in BinCounts
    /\ zScoreThreshold \in ZScoreThresholds
    /\ trimPercent \in TrimPercents
    /\ stats = NilStats
    /\ err = NilErr
    /\ argSorted = <<>> /\ argP = 0 /\ retPercentile = 0
    /\ args = None /\ ret = None /\ prev = None

\* the call of computeStats that computed r ends: it returns r with the modes
\* of one iteration order and the sparkline of one build, pc becoming
\* returned, or it panics in generateSparkline
EndOfCall(r, returned) ==
    IF r.stats.isNil THEN stats' = r.stats /\ err' = r.err /\ pc' = returned
    ELSE \E s \in sparklineOutcomes(r.stats.Sparkline, sortedCopy(data).sortedData, numBins) :
            IF s = IndexPanic
            THEN stats' = NilStats /\ err' = NilErr /\ pc' = "panicked"
            ELSE /\ stats' \in {[r.stats EXCEPT !.Mode = modeOf(data, order),
                                                !.Sparkline = s] :
                                   order \in Orders(Range(data))}
                 /\ err' = r.err
                 /\ pc' = returned

\* stats, err := computeStats(numbers, customPercentiles, *iqrMultiplier, ...)
ComputeStats ==
    /\ pc = "start"
    /\ \E r \in {computeStats(data, cfgOf)} : EndOfCall(r, "done")
    /\ data' = callerDataAfter(data)
    /\ UNCHANGED <<config, percentileCall, directCall, prev>>

Next == ComputeStats

Spec == Init /\ [][Next]_vars

\* ---------------------------------- computeStats on samples of either sign
\* values around zero, the smallest mean that counts as non-zero among them
SignedValues == {FromInt(-2), FromInt(-1), 0, CVEpsilon, FromInt(1), FromInt(2)}

InitSigned ==
    /\ pc = "start"
    /\ data \in SeqsUpTo(SignedValues, MaxLen)
    /\ customPercentiles = <<>>
    /\ iqrMultiplier = FLit(3, 2)
    /\ numBins = 5
    /\ zScoreThreshold = 0
    /\ trimPercent = 0
    /\ stats = NilStats
    /\ err = NilErr
    /\ argSorted = <<>> /\ argP = 0 /\ retPercentile = 0
    /\ args = None /\ ret = None /\ prev = None

SpecSigned == InitSigned /\ [][Next]_vars

\* ------------------------------------------------- computeStats called twice
InitTwoRuns ==
    /\ pc = "start"
    /\ data \in Samples
    /\ customPercentiles = <<FromInt(10), FromInt(90)>>
    /\ iqrMultiplier = FLit(3, 2)
    /\ numBins = 5
    /\ zScoreThreshold = FromInt(1)
    /\ trimPercent \in {0, FromInt(25)}
    /\ stats = NilStats
    /\ err = NilErr
    /\ argSorted = <<>> /\ argP = 0 /\ retPercentile = 0
    /\ args = None /\ ret = None /\ prev = None

\* a second call of computeStats with the same arguments; the frequency map
\* of this call is iterated in an order of its own
ComputeStatsAgain ==
    /\ pc = "done"
    /\ prev' = [stats |-> stats, err |-> err]
    /\ \E r \in {computeStats(data, cfgOf)} : EndOfCall(r, "again")
    /\ data' = callerDataAfter(data)
    /\ UNCHANGED <<config, percentileCall, directCall>>

NextTwoRuns == ComputeStats \/ ComputeStatsAgain

SpecTwoRuns == InitTwoRuns /\ [][NextTwoRuns]_vars

\* --------------------------- computeStats called again with a larger k
\* the multipliers the two calls choose from
Multipliers == {0, FromInt(1), FLit(3, 2), FromInt(3)}

InitTwoMultipliers ==
    /\ pc = "start"
    /\ data \in Samples
    /\ customPercentiles = <<>>
    /\ iqrMultiplier \in Multipliers
    /\ numBins = 5
    /\ zScoreThreshold = 0
    /\ trimPercent = 0
    /\ stats = NilStats
    /\ err = NilErr
    /\ argSorted = <<>> /\ argP = 0 /\ retPercentile = 0
    /\ args = None /\ ret = None /\ prev = None

\* a second call of computeStats on the same sample with a multiplier that
\* is not smaller; prev keeps the multiplier and the result of the first
ComputeStatsLargerK ==
    /\ pc = "done"
    /\ prev' = [stats |-> stats, err |-> err, iqrMultiplier |-> iqrMultiplier]
    /\ \E k \in {m \in Multipliers : m >= iqrMultiplier} :
          /\ iqrMultiplier' = k
          /\ \E r \in {computeStats(data, [cfgOf EXCEPT !.iqrMultiplier = k])} :
                EndOfCall(r, "again")
    /\ data' = callerDataAfter(data)
    /\ UNCHANGED <<customPercentiles, numBins, zScoreThreshold, trimPercent,
                   percentileCall, directCall>>

NextTwoMultipliers == ComputeStats \/ ComputeStatsLargerK

SpecTwoMultipliers == InitTwoMultipliers /\ [][NextTwoMultipliers]_vars

\* ------------------------------------- calculatePercentile called directly
IsAscending(s) == \A i \in 1..(Len(s) - 1) : s[i] <= s[i + 1]

\* the sequence 1, 2, ..., 10 of TestCalculatePercentile
OneToTen == [i \in 1..10 |-> FromInt(i)]

SortedInputs == {s \in Samples : IsAscending(s)} \cup {OneToTen}

\* the fractions p in [0,1] the function is called with
Fractions ==
    {0, FLit(1, 10), FLit(1, 4), FLit(1, 3), FLit(1, 2), FLit(3, 4), FLit(9, 10),
     FLit(95, 100), FLit(99, 100), FromInt(1)}

\* values of p outside [0,1]
OutOfRangeFractions ==
    {0 - FromInt(1), 0 - FLit(1, 4), FLit(5, 4), FLit(3, 2), FromInt(2)}

InitPercentile ==
    /\ pc = "call"
    /\ argSorted \in SortedInputs
    /\ argP \in Fractions \cup OutOfRangeFractions
    /\ retPercentile = 0
    /\ data = <<>>
    /\ customPercentiles = <<>>
    /\ iqrMultiplier = FLit(3, 2)
    /\ numBins = 5
    /\ zScoreThreshold = 0
    /\ trimPercent = 0
    /\ stats = NilStats
    /\ err = NilErr
    /\ args = None /\ ret = None /\ prev = None

\* got := calculatePercentile(sortedData, p)
CalculatePercentile ==
    /\ pc = "call"
    /\ retPercentile' = calculatePercentile(argSorted, argP)
    /\ pc' = IF percentilePanics(argSorted, argP) THEN "panicked" ELSE "returned"
    /\ UNCHANGED <<data, config, stats, err, argSorted, argP, directCall, prev>>

NextPercentile == CalculatePercentile

SpecPercentile == InitPercentile /\ [][NextPercentile]_vars

\* -------------------------------------------- functions called directly
\* pc = "call", the arguments in args, everything else at rest
InitCall(argSet) ==
    /\ pc = "call"
    /\ args \in argSet
    /\ ret = None
    /\ prev = None
    /\ data = <<>>
    /\ customPercentiles = <<>>
    /\ iqrMultiplier = FLit(3, 2)
    /\ numBins = 5
    /\ zScoreThreshold = 0
    /\ trimPercent = 0
    /\ stats = NilStats
    /\ err = NilErr
    /\ argSorted = <<>> /\ argP = 0 /\ retPercentile = 0

\* the call returns value
Return(value) ==
    /\ pc = "call"
    /\ ret' = value
    /\ pc' = "returned"
    /\ UNCHANGED <<data, config, stats, err, percentileCall, args, prev>>

\* the call returns one of the values, or panics
ReturnOneOf(values) ==
    /\ pc = "call"
    /\ \E v \in values :
          /\ ret' = v
          /\ pc' = IF v = IndexPanic THEN "panicked" ELSE "returned"
    /\ UNCHANGED <<data, config, stats, err, percentileCall, args, prev>>

\* the values a sample to transform is drawn from
LogValues == {FromInt(-2), 0, FromInt(1), FromInt(2), FromInt(27)}

InitLog == InitCall([data : SeqsUpTo(LogValues, MaxLen)])

\* result, err := applyLogTransform(data)
ApplyLogTransform == Return(applyLogTransform(args.data))

NextLog == ApplyLogTransform

SpecLog == InitLog /\ [][NextLog]_vars

\* the bin counts the histogram is asked for
HistogramBins == {2, 3, 5, 8}

\* sorted samples of the smallest floats: 0 and the first three multiples of
\* the smallest positive float
SubnormalInputs ==
    {s \in SeqsUpTo({0, 1, 2, 3}, 3) : Len(s) >= 2 /\ IsAscending(s)}

HistogramInputs == SortedInputs \cup SubnormalInputs

InitHistogram == InitCall([sortedData : HistogramInputs, numBins : HistogramBins])

\* result := generateSparkline(sorted, numBins)
GenerateHistogram ==
    ReturnOneOf(sparklineOutcomes(generateSparkline(args.sortedData, args.numBins),
                                  args.sortedData, args.numBins))

NextHistogram == GenerateHistogram

SpecHistogram == InitHistogram /\ [][NextHistogram]_vars

\* a run of neighbouring values
DenseRun == [i \in 1..10 |-> FromInt(19 + i)]

\* the samples a trendline is drawn of
TrendInputs ==
    Samples \cup {OneToTen}
            \cup {SubSeq(DenseRun, i, j) : i \in 1..9, j \in 2..10}

InitTrendline == InitCall([data : TrendInputs, numBins : HistogramBins])

\* result := generateTrendline(data, numBins)
GenerateTrendline == Return(generateTrendline(args.data, args.numBins))

NextTrendline == GenerateTrendline

SpecTrendline == InitTrendline /\ [][NextTrendline]_vars

\* the values, means and standard deviations calculateSkewness is called with
SkewValues == {FromInt(-27), FromInt(-1), FromInt(1), FromInt(2), FromInt(27)}

SkewMeans == {0, FromInt(1)}

SkewStdDevs == {0, FromInt(2), FromInt(19)}

InitSkewness ==
    InitCall([data : SeqsUpTo(SkewValues, MaxLen), mean : SkewMeans,
              stdDev : SkewStdDevs])

\* got := calculateSkewness(data, mean, stdDev)
CalculateSkewness == Return(calculateSkewness(args.data, args.mean, args.stdDev))

NextSkewness == CalculateSkewness

SpecSkewness == InitSkewness /\ [][NextSkewness]_vars

\* the sequence 1, 2, ..., 9 of TestCalculateKurtosis
OneToNine == [i \in 1..9 |-> FromInt(i)]

\* the means and standard deviations calculateKurtosis is called with
KurtMeans == {0, FromInt(1), FromInt(5)}

KurtStdDevs == {0, FromInt(1), FromInt(2), FLit(27386, 10000)}

InitKurtosis ==
    InitCall([data : SeqsUpTo(SkewValues, MaxLen) \cup {OneToNine},
              mean : KurtMeans, stdDev : KurtStdDevs])

\* got := calculateKurtosis(data, mean, stdDev)
CalculateKurtosis == Return(calculateKurtosis(args.data, args.mean, args.stdDev))

NextKurtosis == CalculateKurtosis

SpecKurtosis == InitKurtosis /\ [][NextKurtosis]_vars

\* ------------------------------------------------------------- the reader
\* bufio.MaxScanTokenSize, 64 * 1024: a line of this many bytes or more does
\* not fit in the buffer of the scanner bufio.NewScanner returns
MaxScanTokenSize == 65536

ErrTooLong == "bufio.Scanner: token too long"

\* one element of the input text that stands for MaxScanTokenSize spaces
LongBlank == "64Ki spaces"

NewLine == "\n"

Digits == {"1", "5"}

\* the elements an input text is made of
Alphabet == Digits \cup {".", "x", " ", NewLine, LongBlank}

\* the number of bytes of an element of the input
bytesOf(c) == IF c = LongBlank THEN MaxScanTokenSize ELSE 1

RECURSIVE lineBytes(_)
\* len(line), in bytes
lineBytes(line) ==
    IF line = <<>> THEN 0 ELSE bytesOf(Head(line)) + lineBytes(Tail(line))

RECURSIVE scanLinesFrom(_, _, _, _)
\* bufio.ScanLines from element i on: line is the line being read, lines the
\* lines already complete; a last line without a newline counts when it is
\* not empty
scanLinesFrom(input, i, line, lines) ==
    IF i > Len(input)
    THEN IF line = <<>> THEN lines ELSE Append(lines, line)
    ELSE IF input[i] = NewLine
    THEN scanLinesFrom(input, i + 1, <<>>, Append(lines, line))
    ELSE scanLinesFrom(input, i + 1, Append(line, input[i]), lines)

\* the lines bufio.ScanLines splits the input into, newlines dropped
scanLines(input) == scanLinesFrom(input, 1, <<>>, <<>>)

isSpace(c) == c \in {" ", LongBlank}

RECURSIVE trimLeft(_)
trimLeft(line) ==
    IF line # <<>> /\ isSpace(Head(line)) THEN trimLeft(Tail(line)) ELSE line

RECURSIVE trimRight(_)
trimRight(line) ==
    IF line # <<>> /\ isSpace(line[Len(line)])
    THEN trimRight(SubSeq(line, 1, Len(line) - 1))
    ELSE line

\* strings.TrimSpace(line)
TrimSpace(line) == trimRight(trimLeft(line))

digitValue(c) == IF c = "1" THEN 1 ELSE 5

RECURSIVE digitsValue(_, _)
\* the integer the digits of line spell, its decimal point left out
digitsValue(line, acc) ==
    IF line = <<>> THEN acc
    ELSE IF Head(line) = "." THEN digitsValue(Tail(line), acc)
    ELSE digitsValue(Tail(line), 10 * acc + digitValue(Head(line)))

\* the positions of line holding c
positionsOf(line, c) == {i \in 1..Len(line) : line[i] = c}

\* the number of digits after the decimal point of line
fractionDigits(line) ==
    IF positionsOf(line, ".") = {} THEN 0
    ELSE Len(line) - (CHOOSE i \in positionsOf(line, ".") : TRUE)

\* strconv.ParseFloat(line, 64) on unsigned decimal text: digits with at most
\* one decimal point and at least one digit, rounded to the nearest float
ParseFloat(line) ==
    IF /\ \A i \in 1..Len(line) : line[i] \in Digits \cup {"."}
       /\ Cardinality(positionsOf(line, ".")) <= 1
       /\ \E i \in 1..Len(line) : line[i] \in Digits
    THEN [num |-> FLit(digitsValue(line, 0), 10 ^ fractionDigits(line)), err |-> NilErr]
    ELSE [num |-> 0, err |-> "invalid syntax"]

RECURSIVE readLoop(_, _, _, _)
\* the loop of readNumbers from the line after lineNum on; warnings are the
\* numbers of the lines reported on stderr
readLoop(lines, lineNum, numbers, warnings) ==
    IF lineNum >= Len(lines)
    THEN [numbers |-> numbers, err |-> NilErr, warnings |-> warnings]
    ELSE IF lineBytes(lines[lineNum + 1]) >= MaxScanTokenSize
    THEN [numbers |-> numbers, err |-> ErrTooLong, warnings |-> warnings]
    ELSE IF TrimSpace(lines[lineNum + 1]) = <<>>
    THEN readLoop(lines, lineNum + 1, numbers, warnings)
    ELSE IF ParseFloat(TrimSpace(lines[lineNum + 1])).err # NilErr
    THEN readLoop(lines, lineNum + 1, numbers, Append(warnings, lineNum + 1))
    ELSE readLoop(lines, lineNum + 1,
                  append(numbers, ParseFloat(TrimSpace(lines[lineNum + 1])).num),
                  warnings)

\* numbers, err := readNumbers(reader), the reader holding input
readNumbers(input) == readLoop(scanLines(input), 0, NilSlice, <<>>)

\* the input texts read
Inputs == SeqsUpTo(Alphabet, MaxInput)

InitRead == InitCall([input : Inputs])

\* numbers, err := readNumbers(reader)
ReadNumbers == Return(readNumbers(args.input))

NextRead == ReadNumbers

SpecRead == InitRead /\ [][NextRead]_vars

\* ------------------------------------------------------------------ properties
\* computeStats has returned
Returned == pc = "done"

\* computeStats has returned a result
ReturnedStats == pc = "done" /\ ~stats.isNil

\* C1: computeStats called with an empty sample returns an error and the nil
\* result, whatever the configuration.
C1_EmptyInputFails ==
    (Returned /\ Len(data) = 0) => (err # NilErr /\ stats = NilStats)

\* an empty sample was computed with every optional feature switched on
C1_Witness ==
    /\ Returned /\ Len(data) = 0 /\ err = ErrEmptyInput
    /\ Len(customPercentiles) > 0 /\ zScoreThreshold > 0 /\ trimPercent > 0

\* C2: for every non-empty sample Min <= Q1 <= Median <= Q3 <= Max, and
\* IQR = Q3 - Q1 >= 0.
C2_QuartilesOrdered ==
    ReturnedStats =>
        /\ stats.Min <= stats.Q1
        /\ stats.Q1 <= stats.Median
        /\ stats.Median <= stats.Q3
        /\ stats.Q3 <= stats.Max
        /\ stats.IQR = FSub(stats.Q3, stats.Q1)
        /\ stats.IQR >= 0

\* linear interpolation between closest ranks, as the contract states it
RefPercentile(s, p) ==
    IF Len(s) = 0 THEN 0
    ELSE IF Len(s) = 1 THEN s[1]
    ELSE LET rank == FMul(p, FromInt(Len(s) - 1))
             lo   == FFloor(rank) \div Unit
             hi   == FCeil(rank) \div Unit
             w    == FSub(rank, FromInt(lo))
         IN  IF lo = hi THEN s[lo + 1]
             ELSE FAdd(FMul(s[lo + 1], FSub(FromInt(1), w)), FMul(s[hi + 1], w))

\* C3: calculatePercentile(sortedData, p) is the linear interpolation between
\* closest ranks for every ascending input and every p in [0,1]: 0 for an
\* empty input, the sole element of a one-element input, sortedData[rank] when
\* the rank is whole, else sortedData[lo]*(1-w) + sortedData[hi]*w; 1..10
\* gives 3.25 at p = 0.25 and 5.5 at p = 0.5.
C3_PercentileIsInterpolation ==
    pc = "returned" =>
        /\ retPercentile = RefPercentile(argSorted, argP)
        /\ Len(argSorted) = 0 => retPercentile = 0
        /\ Len(argSorted) = 1 => retPercentile = argSorted[1]
        /\ (argSorted = OneToTen /\ argP = FLit(1, 4)) => retPercentile = FLit(13, 4)
        /\ (argSorted = OneToTen /\ argP = FLit(1, 2)) => retPercentile = FLit(11, 2)

\* 1..10 was interpolated at p = 0.25, between the ranks 2 and 3
C3_Witness ==
    /\ pc = "returned" /\ argSorted = OneToTen /\ argP = FLit(1, 4)
    /\ retPercentile > argSorted[3] /\ retPercentile < argSorted[4]

\* number of occurrences of v in the sequence s
Occurrences(s, v) == Cardinality({i \in 1..Len(s) : s[i] = v})

RECURSIVE RefSumSquares(_, _, _)
\* (x1-mean)^2 + ... + (xi-mean)^2, added from the left
RefSumSquares(s, mean, i) ==
    IF i = 0 THEN 0
    ELSE FAdd(RefSumSquares(s, mean, i - 1),
              FMul(FSub(s[i], mean), FSub(s[i], mean)))

\* C4: Variance = sum((x-Mean)^2)/(n-1) and StdDev = sqrt(Variance) for
\* n >= 2; Variance >= 0 always; Variance and StdDev are both exactly 0 for a
\* sample of one element.
C4_SampleVariance ==
    ReturnedStats =>
        /\ Len(data) >= 2 =>
              /\ stats.Variance = FDiv(RefSumSquares(data, stats.Mean, Len(data)),
                                       FromInt(Len(data) - 1))
              /\ stats.StdDev = FSqrt(stats.Variance)
        /\ stats.Variance >= 0
        /\ Len(data) = 1 => (stats.Variance = 0 /\ stats.StdDev = 0)

\* a sample of at least three values with a positive variance was computed
C4_Witness ==
    ReturnedStats /\ Len(data) >= 3 /\ stats.Variance > 0 /\ stats.StdDev > 0

\* the largest number of occurrences of one value in s
MaxOccurrences(s) ==
    IF s = <<>> THEN 0
    ELSE CHOOSE c \in 1..Len(s) :
            /\ \E v \in Range(s) : Occurrences(s, v) = c
            /\ \A v \in Range(s) : Occurrences(s, v) <= c

RECURSIVE AscendingOf(_)
\* the elements of the set S, each once, in ascending order
AscendingOf(S) ==
    IF S = {} THEN <<>>
    ELSE LET least == CHOOSE x \in S : \A y \in S : x <= y
         IN  <<least>> \o AscendingOf(S \ {least})

\* C5: Mode is the empty list when no value occurs more than once, and else
\* exactly the values whose number of occurrences is the largest, each once,
\* ascending, whatever the order the frequency map is iterated in.
C5_ModeIsMostFrequent ==
    ReturnedStats =>
        /\ ~stats.Mode.isNil
        /\ stats.Mode.elems =
              IF MaxOccurrences(data) <= 1 THEN <<>>
              ELSE AscendingOf({v \in Range(data) :
                                   Occurrences(data, v) = MaxOccurrences(data)})

\* two values tied for the largest frequency were both reported
C5_Witness ==
    /\ ReturnedStats /\ Len(stats.Mode.elems) = 2
    /\ data[1] > data[2] /\ Occurrences(data, data[1]) = 2

\* the fences of the k * IQR rule, from the reported quartiles
LowerFence == FSub(stats.Q1, FMul(iqrMultiplier, stats.IQR))

UpperFence == FAdd(stats.Q3, FMul(iqrMultiplier, stats.IQR))

\* C6: for k >= 0, Outliers holds exactly the occurrences v of the sample
\* with v < Q1 - k*IQR or v > Q3 + k*IQR (a value equal to a fence is not
\* flagged), one entry per occurrence, ascending.
C6_OutliersOutsideFences ==
    ReturnedStats =>
        /\ IsAscending(stats.Outliers.elems)
        /\ \A v \in Range(data) \cup Range(stats.Outliers.elems) :
              Occurrences(stats.Outliers.elems, v) =
                 IF v < LowerFence \/ v > UpperFence THEN Occurrences(data, v) ELSE 0

\* a repeated value was flagged once per occurrence while a value equal to a
\* fence was not flagged
C6_Witness ==
    /\ ReturnedStats
    /\ \E v \in Range(data) : Occurrences(stats.Outliers.elems, v) >= 2
    /\ \E v \in Range(data) :
          (v = LowerFence \/ v = UpperFence) /\ Occurrences(stats.Outliers.elems, v) = 0

\* |v - Mean| / StdDev > zScoreThreshold, for a non-zero StdDev
ZFlagged(v) ==
    stats.StdDev # 0 /\ FDiv(FAbs(FSub(v, stats.Mean)), stats.StdDev) > zScoreThreshold

\* C7: with zScoreThreshold > 0, ZScoreOutliers holds exactly the occurrences
\* v with StdDev # 0 and |v - Mean| / StdDev > threshold, ascending, and
\* ZScoreThreshold records the threshold; with StdDev = 0 nothing is flagged
\* and computeStats still succeeds.
C7_ZScoreOutliers ==
    /\ (ReturnedStats /\ zScoreThreshold > 0) =>
          /\ stats.ZScoreThreshold = zScoreThreshold
          /\ IsAscending(stats.ZScoreOutliers.elems)
          /\ \A v \in Range(data) \cup Range(stats.ZScoreOutliers.elems) :
                Occurrences(stats.ZScoreOutliers.elems, v) =
                   IF ZFlagged(v) THEN Occurrences(data, v) ELSE 0
    /\ (Returned /\ zScoreThreshold > 0 /\ trimPercent = 0 /\ Len(data) > 0) =>
          (err = NilErr /\ ~stats.isNil)

\* a value below the mean was flagged by its Z-score and another was not
C7_Witness ==
    /\ ReturnedStats /\ zScoreThreshold > 0
    /\ \E v \in Range(data) : v < stats.Mean /\ Occurrences(stats.ZScoreOutliers.elems, v) = 1
    /\ Len(stats.ZScoreOutliers.elems) < Len(data)

\* C8 as stated: ZScoreOutliers is nil (and ZScoreThreshold 0) exactly when
\* zScoreThreshold = 0, and empty but not nil whenever detection is on and
\* flags nothing.
C8_NilExactlyWhenDisabled ==
    ReturnedStats =>
        /\ stats.ZScoreOutliers.isNil <=> zScoreThreshold = 0
        /\ zScoreThreshold = 0 => stats.ZScoreThreshold = 0
        /\ (zScoreThreshold > 0 /\ stats.ZScoreOutliers.elems = <<>>) =>
              ~stats.ZScoreOutliers.isNil

\* C8, amended: ZScoreOutliers is nil exactly when zScoreThreshold = 0 or
\* StdDev = 0 (and ZScoreThreshold is 0 when zScoreThreshold = 0); with
\* detection on and StdDev # 0, a sample in which nothing is flagged gives an
\* empty, non-nil list.
C8_NilWhenDisabledOrConstant ==
    ReturnedStats =>
        /\ stats.ZScoreOutliers.isNil <=> (zScoreThreshold = 0 \/ stats.StdDev = 0)
        /\ zScoreThreshold = 0 => stats.ZScoreThreshold = 0
        /\ (zScoreThreshold > 0 /\ stats.StdDev # 0 /\ \A v \in Range(data) : ~ZFlagged(v)) =>
              stats.ZScoreOutliers = Slice(<<>>)

\* detection was on, the sample was not constant, and nothing was flagged
C8_Witness ==
    /\ ReturnedStats /\ zScoreThreshold > 0 /\ stats.StdDev # 0
    /\ stats.ZScoreOutliers = Slice(<<>>)

\* floor(n * trimPercent / 100), in exact arithmetic
ExactTrimCount(n, pct) == (n * pct) \div (100 * Unit)

RECURSIVE DropOne(_, _)
\* s without its first occurrence of v
DropOne(s, v) ==
    IF s = <<>> THEN <<>>
    ELSE IF Head(s) = v THEN Tail(s)
    ELSE <<Head(s)>> \o DropOne(Tail(s), v)

Least(s) == CHOOSE x \in Range(s) : \A y \in Range(s) : x <= y

Greatest(s) == CHOOSE x \in Range(s) : \A y \in Range(s) : x >= y

RECURSIVE DropExtremes(_, _)
\* s without its t smallest and its t largest values
DropExtremes(s, t) ==
    IF t = 0 THEN s
    ELSE DropExtremes(DropOne(DropOne(s, Least(s)), Greatest(s)), t - 1)

RECURSIVE AscendingSum(_)
\* the values of s added from the smallest to the largest
AscendingSum(s) ==
    IF s = <<>> THEN 0
    ELSE FAdd(AscendingSum(DropOne(s, Greatest(s))), Greatest(s))

\* the mean of what is left of data after dropping t values at each end
RefTrimmedMean(s, t) ==
    FDiv(AscendingSum(DropExtremes(s, t)), FromInt(Len(s) - 2 * t))

\* C9: for trimPercent > 0 and t = floor(n*trimPercent/100) with n - 2t > 0,
\* TrimmedMean is the mean of the n - 2t values left after removing the t
\* smallest and the t largest, and TrimmedMeanPct = trimPercent (so t = 0
\* gives TrimmedMean = Mean); for trimPercent = 0 both stay 0.
C9_TrimmedMean ==
    ReturnedStats =>
        /\ trimPercent > 0 =>
              /\ stats.TrimmedMean =
                    RefTrimmedMean(data, ExactTrimCount(Len(data), trimPercent))
              /\ stats.TrimmedMeanPct = trimPercent
              /\ ExactTrimCount(Len(data), trimPercent) = 0 =>
                    stats.TrimmedMean = stats.Mean
        /\ trimPercent = 0 => (stats.TrimmedMean = 0 /\ stats.TrimmedMeanPct = 0)

LnTimes65536(v) ==
    CASE v = FromInt(1)  -> 0
      [] v = FromInt(2)  -> 45426
      [] v = FromInt(27) -> 215996

\* the float nearest to ln(v)
RefLog(v) == RoundME(LnTimes65536(v), FracBits - 16, TRUE)

\* C11: applyLogTransform fails with no data when some value is <= 0, at any
\* position; otherwise it returns a sequence of the same length whose i-th
\* element is the natural log of the i-th input.
C11_LogTransformAllOrNothing ==
    pc = "returned" =>
        IF \E i \in 1..Len(args.data) : args.data[i] <= 0
        THEN ret.err # NilErr /\ ret.result = NilSlice
        ELSE /\ ret.err = NilErr
             /\ ~ret.result.isNil
             /\ Len(ret.result.elems) = Len(args.data)
             /\ \A i \in 1..Len(args.data) :
                    ret.result.elems[i] = RefLog(args.data[i])

\* three different positive values were transformed, in their order
C11_Witness ==
    /\ pc = "returned" /\ ret.err = NilErr
    /\ args.data = <<FromInt(27), FromInt(1), FromInt(2)>>
    /\ ret.result.elems[1] > ret.result.elems[3]
    /\ ret.result.elems[3] > ret.result.elems[2]

\* C12: the histogram is empty for fewer than 2 values or min = max, for any
\* bin count; otherwise it has exactly numBins glyphs, each one of the 8
\* blocks of the palette (an index 0..7).
C12_HistogramShape ==
    (pc # "call" /\ "sortedData" \in DOMAIN args) =>
        /\ pc = "returned"
        /\ IF Len(args.sortedData) < 2
              \/ \A i \in 1..Len(args.sortedData) : args.sortedData[i] = args.sortedData[1]
           THEN ret = <<>>
           ELSE /\ Len(ret) = args.numBins
                /\ \A i \in 1..Len(ret) : ret[i] \in 0..7

StrictlyIncreasing(s) == \A i \in 1..(Len(s) - 1) : s[i] < s[i + 1]

NonDecreasing(s) == \A i \in 1..(Len(s) - 1) : s[i] <= s[i + 1]

\* floor((v - min) / width), at most bins - 1
RefBucketOfWidth(v, min, width, bins) ==
    LET idx == FFloor(FDiv(FSub(v, min), width)) \div Unit
    IN  IF idx > bins - 1 THEN bins - 1 ELSE idx

\* the bucket a value falls in: floor((v - min) / width), at most bins - 1;
\* where the width has rounded to 0 a histogram is returned only by the builds
\* that put the minimum in the first bucket and every other value in the last
RefBucket(v, s, bins) ==
    IF FDiv(FSub(s[Len(s)], s[1]), FromInt(bins)) = 0
    THEN IF v = s[1] THEN 0 ELSE bins - 1
    ELSE RefBucketOfWidth(v, s[1], FDiv(FSub(s[Len(s)], s[1]), FromInt(bins)), bins)

\* how many values of the sorted sample s fall in each of the buckets 1..bins
RefBucketCounts(s, bins) ==
    [b \in 1..bins |-> Cardinality({i \in 1..Len(s) : RefBucket(s[i], s, bins) = b - 1})]

\* C14 as stated: the histogram of a strictly increasing sample (n >= 2) is
\* a non-decreasing sequence of glyph intensities.
C14_HistogramNonDecreasing ==
    (pc = "returned" /\ "sortedData" \in DOMAIN args
        /\ Len(args.sortedData) >= 2 /\ StrictlyIncreasing(args.sortedData))
    => NonDecreasing(ret)

\* C14, amended: the histogram of a strictly increasing sample (n >= 2) is a
\* non-decreasing sequence of glyph intensities whenever its bucket counts
\* are non-decreasing from the first bucket to the last.
C14_HistogramFollowsCounts ==
    (pc = "returned" /\ "sortedData" \in DOMAIN args
        /\ Len(args.sortedData) >= 2 /\ StrictlyIncreasing(args.sortedData)
        /\ NonDecreasing(RefBucketCounts(args.sortedData, args.numBins)))
    => (Len(ret) = args.numBins /\ NonDecreasing(ret))

\* a strictly increasing sample filled its buckets more and more, and the
\* glyphs rose with them
C14_Witness ==
    /\ pc = "returned" /\ "sortedData" \in DOMAIN args
    /\ Len(args.sortedData) >= 3 /\ StrictlyIncreasing(args.sortedData)
    /\ args.numBins >= 3
    /\ NonDecreasing(RefBucketCounts(args.sortedData, args.numBins))
    /\ ret[1] < ret[Len(ret)]

RECURSIVE RefSum(_, _, _)
\* s[lo] + ... + s[hi], added from the left
RefSum(s, lo, hi) ==
    IF hi < lo THEN 0 ELSE FAdd(RefSum(s, lo, hi - 1), s[hi])

\* the mean of the i-th of bins contiguous chunks of s
RefChunkMean(s, bins, i) ==
    LET lo == ((i - 1) * Len(s)) \div bins + 1
        hi == (i * Len(s)) \div bins
    IN  FDiv(RefSum(s, lo, hi), FromInt(hi - lo + 1))

\* all values of s are the same
Constant(s) == \A i \in 1..Len(s) : s[i] = s[1]

\* the number of chunks the call's sample is cut into: one per bin, and
\* no more than there are values
Chunks == IF args.numBins > Len(args.data) THEN Len(args.data) ELSE args.numBins

\* the chunk means of the call's sample are all the same
EqualChunkMeans ==
    \A i \in 1..Chunks :
        RefChunkMean(args.data, Chunks, i) = RefChunkMean(args.data, Chunks, 1)

C15_TrendlineNonDecreasing ==
    (pc = "returned" /\ "data" \in DOMAIN args /\ "numBins" \in DOMAIN args
        /\ StrictlyIncreasing(args.data))
    => NonDecreasing(ret)

\* a strictly increasing sample of more values than bins gave glyphs that rise
C15_Witness ==
    /\ pc = "returned" /\ "data" \in DOMAIN args /\ "numBins" \in DOMAIN args
    /\ StrictlyIncreasing(args.data) /\ Len(args.data) > args.numBins
    /\ Len(ret) = args.numBins /\ args.numBins >= 3
    /\ ret[1] = 0 /\ ret[Len(ret)] = 7 /\ ret[2] > 0

\* C16: a second run of computeStats on the same sample with the same
\* configuration returns the same error and the same result in every field,
\* Mode and Outliers with their order included, whatever order the frequency
\* map was iterated in by either run.
C16_TwoRunsIdentical ==
    pc = "again" => (prev.err = err /\ prev.stats = stats)

\* both runs met a frequency map with two modes, the sample not in order
C16_Witness ==
    /\ pc = "again" /\ ~stats.isNil /\ ~prev.stats.isNil
    /\ Len(stats.Mode.elems) = 2
    /\ data[1] > data[2]

\* C17: computeStats never changes the caller's sample: when it returns, with
\* a result or with an error, the sample holds the same values in the same
\* order as before the call.
C17_CallerSampleUnchanged == [][data' = data]_vars

\* computeStats returned the statistics of a sample that is not in order
C17_Witness ==
    /\ pc = "done" /\ ~stats.isNil
    /\ ~IsAscending(data)
    /\ stats.Min = data[Len(data)] /\ stats.Max = data[1]

\* the orderings of the values of the sample s
PermutationsOf(s) ==
    {[i \in 1..Len(s) |-> s[f[i]]] : f \in Permutations(1..Len(s))}

\* the result without its trendline
ExceptTrendline(s) == [s EXCEPT !.Trendline = <<>>]

\* what computeStats returns for the sample s under the options of the call
\* and the iteration order o of the frequency map
RefStatsOf(s, o) == [computeStats(s, cfgOf).stats EXCEPT !.Mode = modeOf(s, o)]

\* C18: for every non-empty sample and every permutation of it, computeStats
\* with the same configuration returns the same value in every result field
\* except the trendline.
C18_PermutationInvariant ==
    (pc = "done" /\ ~stats.isNil) =>
        \A p \in PermutationsOf(data) : \A o \in Orders(Range(data)) :
            ExceptTrendline(RefStatsOf(p, o)) = ExceptTrendline(stats)

\* C19: a sample with at least 2 distinct values has StdDev > 0; a sample
\* with exactly one distinct value, of any size, has StdDev = 0, Skewness = 0
\* and Kurtosis = 0.
C19_StdDevZeroIffConstant ==
    (pc = "done" /\ ~stats.isNil) =>
        /\ Cardinality(Range(data)) >= 2 => stats.StdDev > 0
        /\ Cardinality(Range(data)) = 1 =>
              (stats.StdDev = 0 /\ stats.Skewness = 0 /\ stats.Kurtosis = 0)

\* d * d * d, the square taken first
RefCube(d) == FMul(d, FMul(d, d))

RECURSIVE RefSumCubes(_, _, _)
\* the cubed deviations of s[1..k] from mean, added from the left
RefSumCubes(s, mean, k) ==
    IF k = 0 THEN 0
    ELSE FAdd(RefSumCubes(s, mean, k - 1), RefCube(FSub(s[k], mean)))

\* (n / ((n - 1)(n - 2))) * sum of (x - mean)^3 / stdDev^3
RefSkewness(s, mean, stdDev) ==
    LET n == FromInt(Len(s))
    IN  FMul(FDiv(n, FMul(FromInt(Len(s) - 1), FromInt(Len(s) - 2))),
             FDiv(RefSumCubes(s, mean, Len(s)), RefCube(stdDev)))

\* every value of s has as many copies as its mirror image about mean
SymmetricAbout(s, mean) ==
    \A i \in 1..Len(s) : Occurrences(s, s[i]) = Occurrences(s, 2 * mean - s[i])

RefFourth(z) ==
    IF z = 0 THEN 0
    ELSE LET sig == Significand(Abs(z))
             sq  == RoundME(sig * sig, 0, FALSE)
             sq2 == RoundME(Significand(sq) * Significand(sq), 0, FALSE)
         IN  RoundME(Significand(sq2),
                     TrailingZeros(sq2) + 2 * TrailingZeros(sq)
                        + 4 * TrailingZeros(Abs(z)) - 3 * FracBits,
                     FALSE)

RECURSIVE RefSumFourths(_, _, _, _)
\* the fourth powers of the standardized deviations of s[1..k], added from
\* the left
RefSumFourths(s, mean, stdDev, k) ==
    IF k = 0 THEN 0
    ELSE FAdd(RefSumFourths(s, mean, stdDev, k - 1),
              RefFourth(FDiv(FSub(s[k], mean), stdDev)))

\* n(n+1)/((n-1)(n-2)(n-3)) * sum of ((x - mean)/stdDev)^4 - 3(n-1)^2/((n-2)(n-3))
RefKurtosis(s, mean, stdDev) ==
    LET n == Len(s)
    IN  FSub(FMul(FDiv(FMul(FromInt(n), FromInt(n + 1)),
                       FMul(FMul(FromInt(n - 1), FromInt(n - 2)), FromInt(n - 3))),
                  RefSumFourths(s, mean, stdDev, n)),
             FDiv(FMul(FMul(FromInt(3), FromInt(n - 1)), FromInt(n - 1)),
                  FMul(FromInt(n - 2), FromInt(n - 3))))

\* C21: calculateKurtosis returns 0 when len(data) < 4 or stdDev = 0, and
\* otherwise the sample excess kurtosis
\* n(n+1)/((n-1)(n-2)(n-3)) * sum ((x - mean)/stdDev)^4 - 3(n-1)^2/((n-2)(n-3)).
C21_KurtosisFormula ==
    (pc = "returned" /\ "stdDev" \in DOMAIN args) =>
        /\ (Len(args.data) < 4 \/ args.stdDev = 0) => ret = 0
        /\ (Len(args.data) >= 4 /\ args.stdDev # 0) =>
              ret = RefKurtosis(args.data, args.mean, args.stdDev)

\* the values 1..9 with mean 5 and standard deviation 2.7386 got a negative
\* excess kurtosis
C21_Witness ==
    /\ pc = "returned" /\ "stdDev" \in DOMAIN args
    /\ args.data = OneToNine /\ args.mean = FromInt(5)
    /\ args.stdDev = FLit(27386, 10000)
    /\ ret < 0

C23_PercentileEnds ==
    (pc # "call" /\ Len(argSorted) >= 1 /\ argP \in {0, FromInt(1)}) =>
        /\ pc = "returned"
        /\ argP = 0 => retPercentile = argSorted[1]
        /\ argP = FromInt(1) => retPercentile = argSorted[Len(argSorted)]

\* p = 1 gave the last of seven values, which is not the first
C23_Witness ==
    /\ pc = "returned" /\ argP = FromInt(1) /\ Len(argSorted) = 7
    /\ retPercentile = argSorted[7] /\ retPercentile # argSorted[1]

\* C29: calculatePercentile does not fail for an out-of-range p: for every
\* ascending input with n >= 2 and every p < 0 or p > 1 the call returns a
\* value, with no index outside sortedData.
C29_OutOfRangeReturns ==
    (pc # "call" /\ Len(argSorted) >= 2 /\ (argP < 0 \/ argP > FromInt(1))) =>
        pc = "returned"

\* v lies within [Min, Max] of the result
WithinRange(v) == stats.Min <= v /\ v <= stats.Max

\* C24: every percentile computeStats returns for a non-empty sample, Q1,
\* Median, Q3, P95, P99 and each requested custom percentile, lies within
\* [Min, Max] of the sample.
C24_PercentilesWithinRange ==
    (pc = "done" /\ ~stats.isNil) =>
        /\ WithinRange(stats.Q1) /\ WithinRange(stats.Median)
        /\ WithinRange(stats.Q3)
        /\ WithinRange(stats.P95) /\ WithinRange(stats.P99)
        /\ ~stats.CustomPercentiles.isNil =>
              \A p \in DOMAIN stats.CustomPercentiles.m :
                  WithinRange(stats.CustomPercentiles.m[p])

\* C25: IQR outlier detection is monotone in the multiplier: for the same
\* sample and 0 <= k1 <= k2 every occurrence flagged with k2 is flagged with
\* k1 as well.
C25_OutliersMonotoneInK ==
    (pc = "again" /\ ~stats.isNil /\ ~prev.stats.isNil) =>
        \A v \in Range(stats.Outliers.elems) :
            Occurrences(stats.Outliers.elems, v)
               <= Occurrences(prev.stats.Outliers.elems, v)

\* the larger multiplier flagged fewer values than the smaller one, and
\* still some
C25_Witness ==
    /\ pc = "again" /\ ~stats.isNil /\ ~prev.stats.isNil
    /\ prev.iqrMultiplier < iqrMultiplier
    /\ Len(stats.Outliers.elems) >= 1
    /\ Len(prev.stats.Outliers.elems) > Len(stats.Outliers.elems)

\* C26: for every non-empty sample and every configuration with
\* trimPercent = 0 the call of computeStats ends by returning a result and no
\* error; it never ends any other way.
C26_DegenerateInputsReturn ==
    (pc # "start" /\ Len(data) >= 1 /\ trimPercent = 0) =>
        (pc = "done" /\ ~stats.isNil /\ err = NilErr)

RECURSIVE RefParsed(_)
\* the numbers of the lines that parse once trimmed, in the order of the lines
RefParsed(lines) ==
    IF lines = <<>> THEN <<>>
    ELSE (IF ParseFloat(TrimSpace(Head(lines))).err = NilErr
          THEN <<ParseFloat(TrimSpace(Head(lines))).num>>
          ELSE <<>>) \o RefParsed(Tail(lines))

\* C27: readNumbers returns no error and, in input order, exactly one number
\* for each line that parses as a number once trimmed; blank and unparseable
\* lines are skipped, and an empty input yields an empty sequence.
C27_ReadNumbers ==
    (pc = "returned" /\ "input" \in DOMAIN args) =>
        /\ ret.err = NilErr
        /\ ret.numbers.elems = RefParsed(scanLines(args.input))

\* the largest count
RefMaxCount(counts) ==
    CHOOSE m \in {counts[b] : b \in DOMAIN counts} : \A b \in DOMAIN counts : counts[b] <= m

\* the glyphs follow the counts: level 0 for an empty bucket, floor(c*7/m)
\* for a bucket of c values, m being the largest count
LevelsFollowCounts(glyphs, counts, m) ==
    /\ DOMAIN glyphs = DOMAIN counts
    /\ \A b \in DOMAIN counts :
          /\ glyphs[b] \in 0..7
          /\ counts[b] = 0 => glyphs[b] = 0
          /\ counts[b] > 0 => glyphs[b] = (counts[b] * 7) \div m
          /\ counts[b] = m => glyphs[b] = 7
    /\ (\A b \in DOMAIN counts : counts[b] = m) => \A b \in DOMAIN glyphs : glyphs[b] = 7

\* C28: in a non-empty histogram a bucket with count 0 gets the lowest glyph
\* and a bucket with count c > 0 the glyph of level floor(c*7/maxCount), a
\* level in 0..7; the fullest buckets get the highest glyph, and when all
\* buckets hold the same number of values every glyph is the highest.
C28_GlyphsFollowCounts ==
    (pc = "returned" /\ "sortedData" \in DOMAIN args /\ ret # <<>>) =>
        LevelsFollowCounts(ret, RefBucketCounts(args.sortedData, args.numBins),
                           RefMaxCount(RefBucketCounts(args.sortedData, args.numBins)))

\* a histogram with an empty bucket, a fullest bucket and a bucket in between
C28_Witness ==
    /\ pc = "returned" /\ "sortedData" \in DOMAIN args /\ ret # <<>>
    /\ \E a, b, c \in 1..Len(ret) : ret[a] = 0 /\ ret[b] = 7 /\ ret[c] \in 1..6
    /\ \E b \in 1..Len(ret) : RefBucketCounts(args.sortedData, args.numBins)[b] = 0

RECURSIVE RefSumCounts(_, _)
\* bins[0] + ... + bins[last]
RefSumCounts(bins, last) ==
    IF last < 0 THEN 0 ELSE bins[last] + RefSumCounts(bins, last - 1)

\* every index is a bucket, the first index bucket 0, the last index the last
\* bucket, and the buckets count every index once
BucketIndicesInRange(indices, bins) ==
    /\ \A i \in 1..Len(indices) : indices[i] \in 0..(bins - 1)
    /\ indices[1] = 0
    /\ indices[Len(indices)] = bins - 1
    /\ RefSumCounts(binsOfIndices(indices, bins), bins - 1) = Len(indices)

\* C30: for a sorted sample with n >= 2 and min < max and 5 bins or more the
\* call returns, every value is counted in the one bucket of index
\* floor((value - min)/width) clamped to bins - 1, an index in 0..bins-1, the
\* minimum in bucket 0 and the maximum in bucket bins - 1, and the bucket
\* counts sum to n.
C30_BucketIndexInRange ==
    (/\ pc # "call" /\ "sortedData" \in DOMAIN args
     /\ Len(args.sortedData) >= 2
     /\ args.sortedData[1] < args.sortedData[Len(args.sortedData)]
     /\ args.numBins >= 5)
    => /\ pc = "returned"
       /\ FDiv(FSub(args.sortedData[Len(args.sortedData)], args.sortedData[1]),
               FromInt(args.numBins)) # 0
       /\ BucketIndicesInRange(
              binIndices(args.sortedData, args.sortedData[1],
                         FDiv(FSub(args.sortedData[Len(args.sortedData)], args.sortedData[1]),
                              FromInt(args.numBins)),
                         args.numBins),
              args.numBins)

============================================================================
